---- MODULE Spec2Model ----
(***************************************************************************)
(* Model of the frame decoder data_cal (src/software/command.c:234-360).   *)
(*                                                                         *)
(* One Step action is one iteration of the byte loop (line 260); the       *)
(* iteration is split by the branch of the loop body it takes.  Call       *)
(* starts an invocation on a fresh raw buffer, Return ends it.  The        *)
(* hit maps, the telemetry record and the frame counter are owned by the   *)
(* caller and survive from one invocation to the next.                     *)
(*                                                                         *)
(* The two 928x960 arrays are represented by their non-zero cells: a map   *)
(* is a function from the flat indices l*960+m whose cell is not 0 to the  *)
(* 16-bit value of that cell; an index outside the domain holds 0.         *)
(***************************************************************************)
EXTENDS Integers, Sequences, FiniteSets, TLC

(***************************************************************************)
(* Bounds of the model.                                                    *)
(***************************************************************************)
\* number of 4-byte groups in a raw buffer (line 238 has 20000)
datanum == 6
\* number of invocations of data_cal in one behaviour
MaxCalls == 2

(***************************************************************************)
(* Program constants.                                                      *)
(***************************************************************************)
DataLen == datanum * 4
tailer == 22136
SyncByte == 170
ROWS == 928
COLS == 960
AlarmLevel == 68
TwoTo16 == 65536

(***************************************************************************)
(* Raw buffers.  A buffer is put together from byte groups: the            *)
(* synchronization marker, a telemetry block, 16-bit words (low byte       *)
(* first) and terminator words.                                            *)
(***************************************************************************)
SYNC == <<170, 170, 170, 170>>
\* terminator word 0x5678, low byte first
TERM == <<120, 86>>
\* the same two bytes in the other order: the word 0x7856
SWAP == <<86, 120>>
\* row word, row = 1 (0x1004)
ROW1 == <<4, 16>>
\* row word, row = 928 (0x1E80): the first row outside the grid
ROW928 == <<128, 30>>
\* row word, row = 930 (0x1E88)
ROW930 == <<136, 30>>
\* column word, column = 2, code = 1 (0x0009)
COL2 == <<9, 0>>
\* column word, column = 958, code = 2 (0x0EFA): column + code = 960
COL958 == <<250, 14>>
\* column word, column = 957, code = 2 (0x0EF6): column + code = 959
COL957 == <<246, 14>>
\* column word 0xAAAA: column = 682, code = 2
COLAA == <<170, 170>>

\* the telemetry block of the scenario of the specification
TelScenario == <<0, 1, 2, 3, 4, 5, 10, 11>>
\* bytes >= 0x80 in every decoded position, channel 3, value 1008
TelHigh == <<0, 63, 128, 255, 129, 192, 15, 240>>
\* channel 3, value 70 and value 60
TelCh3Hi == <<0, 0, 0, 1, 20, 64, 12, 70>>
TelCh3Lo == <<0, 0, 0, 1, 20, 64, 12, 60>>
\* channel 0, value 0x2C8 and channel 1, value 0x0C8
TelCh0 == <<0, 16, 0, 2, 127, 255, 2, 200>>
TelCh1 == <<0, 32, 1, 0, 200, 0, 4, 200>>

Words == {ROW1, ROW928, COL2, COL958, TERM}
Telems == {TelScenario, TelHigh, TelCh3Hi, TelCh3Lo, TelCh0, TelCh1}

\* s cut or zero-padded to the length of a raw buffer
Fit(s) == [k \in 1..DataLen |-> IF k <= Len(s) THEN s[k] ELSE 0]

\* a frame with three words closed by three terminator words; the third
\* word is never interpreted, it only decides whether the second is
WordBuffers ==
    { Fit(SYNC \o TelScenario \o a \o b \o c \o TERM \o TERM \o TERM) :
        a \in Words, b \in Words, c \in {COL2, TERM} }

\* a frame for every telemetry block
TelemBuffers ==
    { Fit(SYNC \o t \o COL957 \o COL2 \o TERM \o TERM) : t \in Telems }

\* frames and markers cut by the end of the buffer, and odd cases
CutBuffers ==
    { Fit(<<>>),
      \* the scenario with the terminator bytes written 56 78 56 78
      Fit(SYNC \o TelScenario \o COL2 \o ROW930 \o COL2 \o SWAP \o SWAP),
      \* row 930, then column words, then a valid row
      Fit(SYNC \o TelScenario \o ROW930 \o COL2 \o ROW1 \o COL2 \o TERM \o TERM),
      \* a marker inside a frame
      Fit(SYNC \o TelHigh \o COLAA \o COLAA \o COLAA \o TERM \o TERM),
      \* terminator words inside the telemetry block
      Fit(SYNC \o TERM \o TERM \o SYNC \o TelCh1 \o TERM \o TERM),
      \* the frame is complete on the last byte of the buffer
      [k \in 1..DataLen |->
          LET s == SYNC \o TelCh0 \o COL2 \o COL2 \o TERM \o TERM
              d == DataLen - Len(s)
          IN  IF k <= d THEN 0 ELSE s[k - d]],
      \* the marker is 5 bytes before the end, the frame ends with the buffer
      [k \in 1..DataLen |->
          LET s == SYNC \o TERM \o TERM
              d == DataLen - Len(s)
          IN  IF k <= d THEN 0 ELSE s[k - d]],
      \* the second terminator word is cut by the end of the buffer
      [k \in 1..DataLen |->
          LET s == SYNC \o TelCh1 \o COL2 \o COL2 \o TERM
              d == DataLen - Len(s)
          IN  IF k <= d THEN 0 ELSE s[k - d]],
      \* the marker is cut by the end of the buffer
      [k \in 1..DataLen |-> IF k <= DataLen - 3 THEN 0 ELSE 170] }

Buffers == WordBuffers \cup TelemBuffers \cup CutBuffers

\* the raw buffers a data source delivers: all the buffers of a behaviour
\* come from one source
Traffic == {"hits", "telemetry", "edge"}
BuffersOf(t) ==
    CASE t = "hits" -> WordBuffers
      [] t = "telemetry" -> TelemBuffers
      [] OTHER -> CutBuffers

\* values the byte behind the end of the buffer may hold
PastBytes == {0, 255}
\* the byte behind the buffer has not been read in this invocation
Unread == -1

\* the longest value array handed to cmd_write_memory
MaxVal == 2

\* thresholds framadd the caller passes
FramAdds == {1, 2}

\* thresholds and FrameCounter values of a caller that does not keep
\* FrameCounter below framadd
AnyFramAdds == {0, 1, 2}
StartCounts == {0, 2, 2147483646}

(***************************************************************************)
(* State.                                                                  *)
(***************************************************************************)
VARIABLES
    \* the build: plain char is signed (TRUE) or unsigned (FALSE)
    charSigned,
    \* caller-owned, persistent
    maps, maps_temp, i2c_data, fcounter, framadd,
    \* the data source, the raw buffer of the invocation and the byte behind
    \* its end
    traffic, databuf, past,
    \* control
    pc, calls, op,
    \* locals of data_cal
    i, w, w1, w2, w3, w4, pdata, pdata_pre1, pdata_pre2, counter, odd,
    tsign, row, column, code, ch, i2c_data_temp,
    \* observations: the indices of databuf read by the last step, the value
    \* printed by the last step, the words assembled since the last marker
    rd, printed, words,
    \* the last command encoder call: the encoder, whether *bufio was NULL,
    \* the size in words of the buffer it wrote to, the words it wrote from
    \* buf[0] on, its nval argument and the value it returned
    cmdname, cmdnull, cmdcap, cmdmem, cmdnval, cmdret

cmdvars == <<cmdname, cmdnull, cmdcap, cmdmem, cmdnval, cmdret>>
caller == <<maps, maps_temp, i2c_data, fcounter>>
histo  == <<w, w1, w2, w3, w4>>
coord  == <<row, column, code>>
vars == <<charSigned, maps, maps_temp, i2c_data, fcounter, framadd, traffic,
          databuf,
          past, pc, calls, op, i, w, w1, w2, w3, w4, pdata, pdata_pre1,
          pdata_pre2, counter, odd, tsign, row, column, code, ch,
          i2c_data_temp, rd, printed, words,
          cmdname, cmdnull, cmdcap, cmdmem, cmdnval, cmdret>>
decoder == <<charSigned, maps, maps_temp, i2c_data, fcounter, framadd,
             traffic, databuf, past, pc, calls, op, i, w, w1, w2, w3, w4,
             pdata, pdata_pre1, pdata_pre2, counter, odd, tsign, row, column,
             code, ch, i2c_data_temp, rd, printed, words>>

(***************************************************************************)
(* Helpers.                                                                *)
(***************************************************************************)
\* the empty map: every cell is 0
ZeroMap == [k \in {} |-> 0]

\* the value of cell k of map m
Cell(m, k) == IF k \in DOMAIN m THEN m[k] ELSE 0

\* map m after "m[k] += 1" on every index k of K (unsigned short)
Bump(m, K) ==
    LET val(k) == IF k \in K THEN (Cell(m, k) + 1) % TwoTo16 ELSE Cell(m, k)
        nz == {k \in (DOMAIN m) \cup K : val(k) # 0}
    IN  [k \in nz |-> val(k)]

\* a byte stored into a char
ToChar(b) == IF charSigned /\ b >= 128 THEN b - 256 ELSE b

\* conversion of an int to unsigned int.  An unsigned int is held as its two
\* 16-bit halves, value = hi * 65536 + lo (2^32 is outside the integers TLC
\* computes with).
ToU32(x) == [hi |-> (x \div TwoTo16) % TwoTo16, lo |-> x % TwoTo16]

\* unsigned comparison u > n, for 0 <= n < 65536
U32Greater(u, n) == (u.hi > 0) \/ (u.lo > n)


\* nothing was printed by the last step
NoPrint == <<>>

(***************************************************************************)
(* Pieces of the loop body.                                                *)
(***************************************************************************)
\* a slip on lines 271-276: the first byte taken as the high byte
Assemble_HighFirst(low, high) == (low * 256 + high) % TwoTo16

\* line 276: pdata = pdata + (w << 8), stored into an unsigned short
Assemble(low, high) == (low + high * 256) % TwoTo16

\* line 281
IsTailer(p) == p = tailer

\* a slip on line 283: no terminator word is taken as a first one
FirstTailer_Never(ts) == FALSE

\* line 283: the terminator word is a first one
FirstTailer(ts) == ts = 0

\* a slip on line 330: the test of the disabled line 329, counter > 2
PastAlignment_Early(cnt) == cnt > 2

\* line 330: the in-frame word counter lets coordinate words through
PastAlignment(cnt) == cnt > 6

\* a slip on line 332: the mask 0x2000 in place of 0x1000
IsRowWord_Bit13(p) == (p \div 8192) % 2 # 0

\* line 332: (pdata_pre2 & 0x1000) != 0
IsRowWord(p) == (p \div 4096) % 2 = 1

\* lines 333 and 336: (pdata_pre2 >> 2) & 0x03ff
Coord10(p) == (p \div 4) % 1024

\* line 337: pdata_pre2 & 0x0003
CodeOf(p) == p % 4

\* a slip on line 338: the row is not tested
InGrid_NoRow(r, c, cd) == c + cd < COLS

\* line 338: ((column+code)<960)&(row<928)
InGrid(r, c, cd) == (c + cd < COLS) /\ (r < ROWS)

\* a slip on line 340: j < code in place of j < code+1
HitCells_Short(r, c, cd) == { r * COLS + c + j : j \in 0..(cd - 1) }

\* lines 340-341: the indices written by the loop over j
HitCells(r, c, cd) == { r * COLS + c + j : j \in 0..cd }

\* a slip on line 311: every completed frame commits
CommitDue_Always(fc, fa) == TRUE

\* line 311
CommitDue(fc, fa) == fc = fa

\* line 351
SyncSeen(a, b, c, d) ==
    (a = SyncByte) /\ (b = SyncByte) /\ (c = SyncByte) /\ (d = SyncByte)

\* line 354: the guard of the staging read of buf[i + m + 1]
StageGuard(idx, m) == idx + m < DataLen

\* the indices of databuf that the staging loop of lines 353-356 reads
StageReads(idx) == { idx + m + 1 : m \in {n \in 0..7 : StageGuard(idx, n)} }

(***************************************************************************)
(* Telemetry decoding, lines 294-304.  t is i2c_data_temp: chars, so an    *)
(* element is negative when char is signed and the byte was >= 0x80; >> of *)
(* a negative int is the arithmetic shift every supported build produces,  *)
(* and the int result is converted to unsigned int by the assignment.      *)
(***************************************************************************)
\* line 294
TelFrameCounter(t) == ToU32(((t[1] % 16) * 65536) + (t[2] * 256) + t[3])

\* line 295
TelLatchup(t) == ToU32((t[1] \div 16) % 4)

\* line 296
TelTemperature(t) == ToU32(((t[4] * 4) + (t[5] \div 64)) \div 4)

\* a slip on line 297: the masked bits are not shifted down
TelChannel_NoShift(t) == ((t[6] \div 4) % 4) * 4

\* line 297
TelChannel(t) == (t[6] \div 4) % 4

\* lines 299-304
TelValue(t) == ToU32(((t[6] % 4) * 256) + t[7])

\* a slip on line 305: the 300 mA level, 53, in place of 68
OverCurrent_300mA(v) == U32Greater(v, 53)

\* line 305
OverCurrent(v) == U32Greater(v, AlarmLevel)

\* the telemetry record after lines 294-304
Extract(rec, t) ==
    [k \in 0..7 |->
        CASE k = 0 -> TelFrameCounter(t)
          [] k = 1 -> TelLatchup(t)
          [] k = 2 -> TelTemperature(t)
          [] k = 7 -> ToU32(TelChannel(t))
          [] k = 3 + TelChannel(t) -> TelValue(t)
          [] OTHER -> rec[k]]

(***************************************************************************)
(* Initial state: before the first invocation.  The accumulators are the   *)
(* caller's; temp already holds one cell at 65535, the state 65535 hits of *)
(* a long commit window leave behind.                                      *)
(***************************************************************************)
Start(signs, counts, thresholds, sources) ==
    /\ charSigned \in signs
    /\ maps = ZeroMap
    /\ maps_temp = ((1 * COLS + 3) :> 65535)
    /\ i2c_data = [k \in 0..7 |-> ToU32(0)]
    /\ fcounter \in counts
    /\ framadd \in thresholds
    /\ traffic \in sources
    /\ databuf = Fit(<<>>)
    /\ past = Unread
    /\ pc = "idle"
    /\ calls = 0
    /\ op = "init"
    /\ i = 0
    /\ w = 0 /\ w1 = 0 /\ w2 = 0 /\ w3 = 0 /\ w4 = 0
    /\ pdata = 0 /\ pdata_pre1 = 0 /\ pdata_pre2 = 0
    /\ counter = 0 /\ odd = 0 /\ tsign = 0
    /\ row = 0 /\ column = 0 /\ code = 0 /\ ch = 0
    /\ i2c_data_temp = [m \in 0..7 |-> 0]
    /\ rd = {}
    /\ printed = NoPrint
    /\ words = <<>>
    /\ cmdname = "none"
    /\ cmdnull = FALSE
    /\ cmdcap = 0
    /\ cmdmem = <<>>
    /\ cmdnval = 0
    /\ cmdret = 0

\* FrameCounter starts at 0 and framadd is 1 or more
Init == Start(BOOLEAN, {0}, FramAdds, Traffic)

\* a caller that hands over a FrameCounter at or above framadd, or a
\* framadd of 0: unsigned char build, the buffers of the "edge" source
InitAny == Start({FALSE}, StartCounts, AnyFramAdds, {"edge"})

\* the decoder at rest while the command encoders are called
InitCmd == Start({FALSE}, {0}, {1}, {"hits"})

(***************************************************************************)
(* Call: lines 234-260, the entry of data_cal and the initializers of its  *)
(* locals.  i2c_data_temp has no initializer; the first iteration runs     *)
(* with counter = 0 and overwrites all 8 elements before anything reads    *)
(* them (datanum*4 >= 8), so its indeterminate content is never observed.  *)
(***************************************************************************)
\* a slip on line 244: counter declared static, so it keeps its value
EntryCounter_Static(cnt) == cnt

\* line 244: unsigned int counter = 0
EntryCounter(cnt) == 0

Call ==
    /\ pc = "idle"
    /\ calls < MaxCalls
    /\ calls' = calls + 1
    /\ databuf' \in BuffersOf(traffic)
    /\ past' = Unread
    /\ pc' = "loop"
    /\ op' = "call"
    /\ i' = 0
    /\ w' = 0 /\ w1' = 0 /\ w2' = 0 /\ w3' = 0 /\ w4' = 0
    /\ pdata' = 0 /\ pdata_pre1' = 0 /\ pdata_pre2' = 0
    /\ counter' = EntryCounter(counter) /\ odd' = 0 /\ tsign' = 0
    /\ row' = 0 /\ column' = 0 /\ code' = 0 /\ ch' = 0
    /\ i2c_data_temp' = [m \in 0..7 |-> 0]
    /\ rd' = {}
    /\ printed' = NoPrint
    /\ words' = <<>>
    /\ UNCHANGED <<charSigned, framadd, traffic, caller, cmdvars>>

\* lines 260-266: the loop test, the read of buf[i] and the byte history
Fetch ==
    /\ pc = "loop"
    /\ i < DataLen
    /\ i' = i + 1
    /\ w' = databuf[i + 1]
    /\ w4' = w3
    /\ w3' = w2
    /\ w2' = w1
    /\ w1' = w'
    /\ UNCHANGED <<charSigned, framadd, traffic, databuf, pc, calls, cmdvars>>

\* a slip on lines 350-351: the marker also clears the temp accumulator
Seek_ClearsTemp ==
    /\ Fetch
    /\ counter = 0
    /\ op' = "seek"
    /\ odd' = 1
    /\ counter' = IF SyncSeen(w1', w2', w3', w4') THEN 1 ELSE 0
    /\ rd' = {i} \cup StageReads(i)
    /\ IF \E k \in StageReads(i) : k >= DataLen
         THEN past' \in (IF past = Unread THEN PastBytes ELSE {past})
         ELSE past' = past
    /\ i2c_data_temp' =
         [m \in 0..7 |->
             IF StageGuard(i, m)
               THEN ToChar(IF i + m + 1 < DataLen
                             THEN databuf[i + m + 2] ELSE past')
               ELSE i2c_data_temp[m]]
    /\ words' = IF counter' = 1 THEN <<>> ELSE words
    /\ printed' = NoPrint
    /\ maps_temp' = IF counter' = 1 THEN ZeroMap ELSE maps_temp
    /\ UNCHANGED <<maps, i2c_data, fcounter, pdata, pdata_pre1, pdata_pre2,
                   tsign, coord, ch>>

\* lines 348-357: counter = 0.  The for loop is not governed by the if.
Seek ==
    /\ Fetch
    /\ counter = 0
    /\ op' = "seek"
    /\ odd' = 1
    /\ counter' = IF SyncSeen(w1', w2', w3', w4') THEN 1 ELSE 0
    /\ rd' = {i} \cup StageReads(i)
    /\ IF \E k \in StageReads(i) : k >= DataLen
         THEN past' \in (IF past = Unread THEN PastBytes ELSE {past})
         ELSE past' = past
    /\ i2c_data_temp' =
         [m \in 0..7 |->
             IF StageGuard(i, m)
               THEN ToChar(IF i + m + 1 < DataLen
                             THEN databuf[i + m + 2] ELSE past')
               ELSE i2c_data_temp[m]]
    /\ words' = IF counter' = 1 THEN <<>> ELSE words
    /\ printed' = NoPrint
    /\ UNCHANGED <<caller, pdata, pdata_pre1, pdata_pre2, tsign, coord, ch>>

\* lines 269-273: the low byte of a word
LowByte ==
    /\ Fetch
    /\ counter # 0
    /\ odd = 1
    /\ op' = "low"
    /\ pdata' = w'
    /\ odd' = 0
    /\ rd' = {i}
    /\ printed' = NoPrint
    /\ UNCHANGED <<caller, past, pdata_pre1, pdata_pre2, counter, tsign,
                   coord, ch, i2c_data_temp, words>>

\* a slip on lines 278-279: the two assignments in the other order
HighByte_Swapped ==
    /\ Fetch
    /\ counter # 0
    /\ odd # 1
    /\ pdata' = Assemble(pdata, w')
    /\ odd' = 1
    /\ pdata_pre1' = pdata'
    /\ pdata_pre2' = pdata_pre1'
    /\ words' = Append(words, pdata')
    /\ rd' = {i}
    /\ UNCHANGED <<past, i2c_data_temp>>

\* lines 276-280: the high byte completes a word
HighByte ==
    /\ Fetch
    /\ counter # 0
    /\ odd # 1
    /\ pdata' = Assemble(pdata, w')
    /\ odd' = 1
    /\ pdata_pre2' = pdata_pre1
    /\ pdata_pre1' = pdata'
    /\ words' = Append(words, pdata')
    /\ rd' = {i}
    /\ UNCHANGED <<past, i2c_data_temp>>

\* lines 281-284: a first terminator word
TailerFirst ==
    /\ HighByte
    /\ IsTailer(pdata')
    /\ FirstTailer(tsign)
    /\ op' = "tailer"
    /\ counter' = counter + 1
    /\ tsign' = 1
    /\ printed' = NoPrint
    /\ UNCHANGED <<caller, coord, ch>>

\* the largest int
IntMax == 2147483647

\* line 291: *fcounter += 1 on an int.  At IntMax the addition overflows,
\* which the language leaves undefined; the add instruction the builds
\* emit wraps to the smallest int.
IntInc(x) == IF x = IntMax THEN (0 - IntMax) - 1 ELSE x + 1

\* a slip on line 313: FrameCounter is not reset by the commit
FrameComplete_NoReset ==
    /\ HighByte
    /\ IsTailer(pdata')
    /\ ~FirstTailer(tsign)
    /\ op' = "complete"
    /\ counter' = 0
    /\ tsign' = 0
    /\ i2c_data' = Extract(i2c_data, i2c_data_temp)
    /\ ch' = TelChannel(i2c_data_temp)
    /\ printed' = IF ch' = 3 /\ OverCurrent(i2c_data'[6])
                    THEN <<i2c_data'[6]>> ELSE NoPrint
    /\ fcounter' = IntInc(fcounter)
    /\ IF CommitDue(IntInc(fcounter), framadd)
         THEN /\ maps' = maps_temp
              /\ maps_temp' = ZeroMap
         ELSE UNCHANGED <<maps, maps_temp>>
    /\ UNCHANGED coord

\* lines 285-324: the second consecutive terminator word
FrameComplete ==
    /\ HighByte
    /\ IsTailer(pdata')
    /\ ~FirstTailer(tsign)
    /\ op' = "complete"
    /\ counter' = 0
    /\ tsign' = 0
    /\ i2c_data' = Extract(i2c_data, i2c_data_temp)
    /\ ch' = TelChannel(i2c_data_temp)
    /\ printed' = IF ch' = 3 /\ OverCurrent(i2c_data'[6])
                    THEN <<i2c_data'[6]>> ELSE NoPrint
    /\ IF CommitDue(IntInc(fcounter), framadd)
         THEN /\ fcounter' = 0
              /\ maps' = maps_temp
              /\ maps_temp' = ZeroMap
         ELSE /\ fcounter' = IntInc(fcounter)
              /\ UNCHANGED <<maps, maps_temp>>
    /\ UNCHANGED coord

\* lines 326-330: a word that is not the terminator, counter <= 6
EarlyWord ==
    /\ HighByte
    /\ ~IsTailer(pdata')
    /\ ~PastAlignment(counter + 1)
    /\ op' = "early"
    /\ counter' = counter + 1
    /\ tsign' = 0
    /\ printed' = NoPrint
    /\ UNCHANGED <<caller, coord, ch>>

\* lines 332-333: pdata_pre2 is a row word
RowWord ==
    /\ HighByte
    /\ ~IsTailer(pdata')
    /\ PastAlignment(counter + 1)
    /\ IsRowWord(pdata_pre2')
    /\ op' = "row"
    /\ counter' = counter + 1
    /\ tsign' = 0
    /\ row' = Coord10(pdata_pre2')
    /\ printed' = NoPrint
    /\ UNCHANGED <<caller, column, code, ch>>

\* lines 334-343: pdata_pre2 is a column and code word
ColumnWord ==
    /\ HighByte
    /\ ~IsTailer(pdata')
    /\ PastAlignment(counter + 1)
    /\ ~IsRowWord(pdata_pre2')
    /\ op' = "column"
    /\ counter' = counter + 1
    /\ tsign' = 0
    /\ column' = Coord10(pdata_pre2')
    /\ code' = CodeOf(pdata_pre2')
    /\ maps_temp' = IF InGrid(row, column', code')
                      THEN Bump(maps_temp, HitCells(row, column', code'))
                      ELSE maps_temp
    /\ printed' = NoPrint
    /\ UNCHANGED <<maps, i2c_data, fcounter, row, ch>>

\* line 260 fails and line 359 returns
Return ==
    /\ pc = "loop"
    /\ i = DataLen
    /\ pc' = "idle"
    /\ op' = "return"
    /\ rd' = {}
    /\ printed' = NoPrint
    /\ UNCHANGED <<charSigned, framadd, traffic, caller, databuf, past, calls, i,
                   histo, pdata, pdata_pre1, pdata_pre2, counter, odd, tsign,
                   coord, ch, i2c_data_temp, words, cmdvars>>

Step ==
    \/ Seek
    \/ LowByte
    \/ TailerFirst
    \/ FrameComplete
    \/ EarlyWord
    \/ RowWord
    \/ ColumnWord

Next ==
    \/ Call
    \/ Step
    \/ Return

Spec == Init /\ [][Next]_vars

SpecAny == InitAny /\ [][Next]_vars

TypeOK ==
    /\ counter >= 0
    /\ odd \in {0, 1}
    /\ tsign \in {0, 1}
    /\ pdata \in 0..65535


(***************************************************************************)
(* Vocabulary of the properties, in terms of the program's variables.      *)
(***************************************************************************)
\* the next step completes a word (the decoder is in a frame and the high
\* byte is due)
WordDue == pc = "loop" /\ i < DataLen /\ counter # 0 /\ odd = 0

\* the word the next step completes
DueWord == (pdata + databuf[i + 1] * 256) % 65536

\* the last word assembled in the current frame is a terminator word
AfterTerminator == counter # 0 /\ words # <<>> /\ words[Len(words)] = 22136

\* the next step completes a frame
CompletionDue == WordDue /\ AfterTerminator /\ DueWord = 22136

\* the next step interprets a word as a coordinate: it is pdata_pre1, the
\* word completed last
InterpretDue == WordDue /\ DueWord # 22136 /\ counter + 1 > 6

\* a non-zero cell of temp becomes 0 and it is not 65535 + 1 wrapping
TempZeroed ==
    \E k \in DOMAIN maps_temp :
        Cell(maps_temp', k) = 0 /\ maps_temp[k] # 65535

\* byte m of the staged block, as a value 0..255
StagedByte(m) == i2c_data_temp[m] % 256

(***************************************************************************)
(* C1: a terminator word followed by another word does not end the frame  *)
(* (the in-frame counter stays non-zero, FrameCounter keeps its value, the *)
(* tailer flag is cleared); a frame ends only on the second of two         *)
(* consecutive terminator words, that step returns to SEEKING_SYNC and     *)
(* increases FrameCounter by exactly 1, and no step taken in SEEKING_SYNC  *)
(* (a third terminator word) changes FrameCounter.                         *)
(***************************************************************************)
C1_Cancel ==
    (WordDue /\ AfterTerminator /\ DueWord # 22136)
        => (counter' # 0 /\ fcounter' = fcounter /\ tsign' = 0)

C1_OnlyPairEnds ==
    (pc = "loop" /\ counter # 0 /\ counter' = 0) => CompletionDue

C1_Third ==
    (pc = "loop" /\ counter = 0) => fcounter' = fcounter

\* C1 as stated: the completing step leaves FrameCounter one higher
C1_Original ==
    [][ /\ C1_Cancel
        /\ C1_OnlyPairEnds
        /\ C1_Third
        /\ CompletionDue => (counter' = 0 /\ fcounter' = fcounter + 1) ]_vars

\* C1 as amended: the completing step increments FrameCounter exactly once,
\* and the commit check of the same step resets it to 0 when the incremented
\* value equals framadd.
C1_TerminatorPair ==
    [][ /\ C1_Cancel
        /\ C1_OnlyPairEnds
        /\ C1_Third
        /\ CompletionDue =>
              /\ counter' = 0
              /\ fcounter' = IF fcounter + 1 = framadd THEN 0
                             ELSE fcounter + 1 ]_vars

\* a frame was completed after a lone terminator word had been cancelled, and
\* FrameCounter stands at 1
C1_Witness ==
    /\ op = "complete"
    /\ fcounter = 1
    /\ \E k \in 1..(Len(words) - 2) :
          words[k] = 22136 /\ words[k + 1] # 22136

(***************************************************************************)
(* C2: stable changes, or a cell of temp is set to 0 otherwise than by the *)
(* 16-bit wrap of an increment, only in a step that completes a frame with *)
(* the just-incremented FrameCounter equal to framadd; that step leaves    *)
(* FrameCounter at 0.                                                      *)
(***************************************************************************)
C2_CommitOnly ==
    [][ (maps' # maps \/ TempZeroed)
          => (CompletionDue /\ fcounter + 1 = framadd /\ fcounter' = 0) ]_vars

\* a commit has replaced stable and cleared temp
C2_Witness ==
    /\ op = "complete"
    /\ fcounter = 0
    /\ maps # ZeroMap
    /\ maps_temp = ZeroMap

(***************************************************************************)
(* C3: from FrameCounter = 0 and framadd = N >= 1, FrameCounter stays in   *)
(* 0..N-1; a completed frame that is not the N-th of its window leaves     *)
(* stable and temp as they are and counts; the N-th copies temp into       *)
(* stable, zeroes temp and resets FrameCounter; between completions stable *)
(* and FrameCounter keep their values and no cell of temp decreases.       *)
(***************************************************************************)
C3_Frames ==
    /\ (CompletionDue /\ fcounter + 1 < framadd)
          => (maps' = maps /\ maps_temp' = maps_temp
                /\ fcounter' = fcounter + 1)
    /\ (CompletionDue /\ fcounter + 1 = framadd)
          => (maps' = maps_temp /\ maps_temp' = ZeroMap /\ fcounter' = 0)
    /\ ~CompletionDue => (maps' = maps /\ fcounter' = fcounter)

\* C3 as stated: between completions no cell of temp ever decreases
C3_Original ==
    /\ [](framadd >= 1 /\ fcounter \in 0..(framadd - 1))
    /\ [][ /\ C3_Frames
           /\ ~CompletionDue =>
                \A k \in DOMAIN maps_temp :
                    Cell(maps_temp', k) >= maps_temp[k] ]_vars

\* C3 as amended: between completions a cell of temp decreases only by the
\* 16-bit wrap of an increment, from 65535 to 0.
C3_Window ==
    /\ [](framadd >= 1 /\ fcounter \in 0..(framadd - 1))
    /\ [][ /\ C3_Frames
           /\ ~CompletionDue =>
                \A k \in DOMAIN maps_temp :
                    \/ Cell(maps_temp', k) >= maps_temp[k]
                    \/ (maps_temp[k] = 65535 /\ Cell(maps_temp', k) = 0) ]_vars

\* with framadd = 2, the second commit: stable was non-zero after the first
\* (temp starts non-zero) and is now the copy of a temp without hits
C3_Witness ==
    /\ op = "complete"
    /\ framadd = 2
    /\ fcounter = 0
    /\ maps = ZeroMap
    /\ maps_temp = ZeroMap

(***************************************************************************)
(* C4: a cell of temp is incremented only while row is in 0..927 and       *)
(* column + code < 960, and then only at an index of                       *)
(* row*960+column .. row*960+column+code, which lies in the row and in the *)
(* 928x960 grid; while row >= 928 no step increments temp.                 *)
(***************************************************************************)
C4_Bounds ==
    [][ ~CompletionDue =>
          /\ \A k \in (DOMAIN maps_temp) \cup (DOMAIN maps_temp') :
                Cell(maps_temp', k) # Cell(maps_temp, k) =>
                   /\ row' >= 0 /\ row' < 928
                   /\ column' + code' < 960
                   /\ k \in (row' * 960 + column')..(row' * 960 + column' + code')
                   /\ k \div 960 = row'
                   /\ k \in 0..(928 * 960 - 1)
          /\ (row >= 928 /\ row' >= 928) => maps_temp' = maps_temp ]_vars

\* a column word with column + code < 960 was interpreted under row >= 928
C4_Witness ==
    /\ op = "column"
    /\ row >= 928
    /\ column + code < 960

(***************************************************************************)
(* C5: a step that interprets a column and code word under row < 928 and   *)
(* column + code < 960 adds 1 (in 16 bits) to each of the code+1 cells     *)
(* row*960+column .. row*960+column+code of temp and changes no other      *)
(* cell of temp, nor stable, FrameCounter or the telemetry record.         *)
(***************************************************************************)
C5_Hit ==
    [][ LET col == (pdata_pre1 \div 4) % 1024
            cd  == pdata_pre1 % 4
        IN  (/\ InterpretDue
             /\ (pdata_pre1 \div 4096) % 2 = 0
             /\ row < 928
             /\ col + cd < 960)
            => /\ \A k \in (DOMAIN maps_temp) \cup (DOMAIN maps_temp')
                            \cup ((row * 960 + col)..(row * 960 + col + cd)) :
                     Cell(maps_temp', k) =
                        IF k \in (row * 960 + col)..(row * 960 + col + cd)
                          THEN (Cell(maps_temp, k) + 1) % 65536
                          ELSE Cell(maps_temp, k)
               /\ maps' = maps
               /\ fcounter' = fcounter
               /\ i2c_data' = i2c_data ]_vars

\* a column word with code 2 was recorded at the last three cells of row 0
C5_Witness ==
    /\ op = "column"
    /\ row = 0 /\ column = 957 /\ code = 2
    /\ \A k \in 957..959 : Cell(maps_temp, k) >= 1

(***************************************************************************)
(* C6: every index of the raw buffer that a step reads, the staging reads  *)
(* included, lies in 0..L-1, L the length of the buffer.                   *)
(***************************************************************************)
C6_ReadsInBuffer == rd \subseteq 0..(DataLen - 1)

\* the word k positions before the word assembled last, as a coordinate
LagIs(k) ==
    LET n == Len(words)
        v == words[n - k]
    IN  /\ n > k
        /\ pdata_pre2 = v
        /\ (op = "row") = ((v \div 4096) % 2 = 1)
        /\ op = "row" => row = (v \div 4) % 1024
        /\ op = "column" => (column = (v \div 4) % 1024 /\ code = v % 4)

(***************************************************************************)
(* C7: when a word that is not the terminator is assembled with the        *)
(* in-frame counter above 6, the word interpreted as the coordinate word   *)
(* is the one assembled two positions before the current word.             *)
(***************************************************************************)
\* C7 as stated: one assembled word lies between the two
C7_Original == op \in {"row", "column"} => LagIs(2)

\* C7 as amended: the interpreted word is the one assembled immediately
\* before the current word; no assembled word lies between the two.
C7_LagOne == op \in {"row", "column"} => LagIs(1)

\* a row word was interpreted in the step that assembled the column word
\* after it
C7_Witness ==
    /\ op = "row"
    /\ row = 1
    /\ Len(words) >= 2
    /\ words[Len(words)] = 9
    /\ words[Len(words) - 1] = 4100

\* the step that read byte 21 completed the frame with the scenario's record
ScenarioDone ==
    /\ op = "complete"
    /\ i2c_data[0] = [hi |-> 1, lo |-> 515]
    /\ i2c_data[1] = [hi |-> 0, lo |-> 0]
    /\ i2c_data[7] = [hi |-> 0, lo |-> 2]
    /\ i2c_data[5] = [hi |-> 0, lo |-> 523]

\* the scenario buffers whose frame is closed by 56 78 56 78
ScenarioSwapped ==
    { b \in Buffers :
        /\ \A k \in 1..4 : b[k] = 170
        /\ \A k \in 1..8 : b[4 + k] = TelScenario[k]
        /\ \A k \in {13, 15, 17} : b[k] + b[k + 1] * 256 # 22136
        /\ <<b[19], b[20], b[21], b[22]>> = <<86, 120, 86, 120>> }

\* the scenario buffers whose frame is closed by 78 56 78 56
ScenarioBuffers ==
    { b \in Buffers :
        /\ \A k \in 1..4 : b[k] = 170
        /\ \A k \in 1..8 : b[4 + k] = TelScenario[k]
        /\ \A k \in {13, 15, 17} : b[k] + b[k + 1] * 256 # 22136
        /\ <<b[19], b[20], b[21], b[22]>> = <<120, 86, 120, 86>> }

(***************************************************************************)
(* C8: a buffer with the bytes AA AA AA AA, the telemetry bytes            *)
(* 00 01 02 03 04 05 0A 0B, three hit words that are not the terminator    *)
(* and the bytes 56 78 56 78 has its frame completed by the last of these  *)
(* bytes, with frameCounter = 0x10203, latchupStatus = 0, channelId = 2    *)
(* and ChipI = 0x20B in the telemetry record.                              *)
(***************************************************************************)
\* C8 as stated: the frame is closed by the bytes 56 78 56 78
C8_Original ==
    (pc = "loop" /\ i = 22 /\ databuf \in ScenarioSwapped) => ScenarioDone

\* C8 as amended: the frame is closed by the bytes 78 56 78 56, the
\* terminator word 0x5678 twice with its low byte first.
C8_Scenario ==
    /\ ScenarioBuffers # {}
    /\ (pc = "loop" /\ i = 22 /\ databuf \in ScenarioBuffers) => ScenarioDone

\* the first invocation completed a scenario frame
C8_Witness ==
    /\ calls = 1
    /\ pc = "loop" /\ i = 22
    /\ databuf \in ScenarioBuffers
    /\ i2c_data[5] = [hi |-> 0, lo |-> 523]

(***************************************************************************)
(* C9: at frame completion, with b the staged bytes as values 0..255, the  *)
(* stored frame counter is ((b[1] & 0x0F) << 16) | (b[2] << 8) | b[3], a   *)
(* value below 2^20, and the stored temperature is                         *)
(* ((b[4] << 2) + (b[5] >> 6)) >> 2.                                       *)
(***************************************************************************)
C9_FrameCounterTemperature ==
    op = "complete" =>
        LET fc == ((StagedByte(1) % 16) * 65536) + (StagedByte(2) * 256)
                     + StagedByte(3)
            tp == ((StagedByte(4) * 4) + (StagedByte(5) \div 64)) \div 4
        IN  /\ i2c_data[0] = [hi |-> fc \div 65536, lo |-> fc % 65536]
            /\ i2c_data[0].hi < 16
            /\ i2c_data[2] = [hi |-> 0, lo |-> tp]

(***************************************************************************)
(* C10: at frame completion the slot selected by channelId =               *)
(* (b[6] & 0x0C) >> 2 receives ((b[6] & 0x03) << 8) + b[7], b the staged   *)
(* bytes as values 0..255; every channel slot holds a value in 0..1023 and *)
(* the stored channelId is in 0..3.                                        *)
(***************************************************************************)
C10_ChannelValue ==
    /\ \A k \in 3..6 : i2c_data[k].hi = 0 /\ i2c_data[k].lo <= 1023
    /\ i2c_data[7].hi = 0 /\ i2c_data[7].lo \in 0..3
    /\ op = "complete" =>
          LET id == (StagedByte(6) \div 4) % 4
          IN  /\ i2c_data[7] = [hi |-> 0, lo |-> id]
              /\ i2c_data[3 + id] =
                    [hi |-> 0, lo |-> ((StagedByte(6) % 4) * 256) + StagedByte(7)]

(***************************************************************************)
(* C11: a frame completion writes exactly one of the four channel slots,   *)
(* the one selected by channelId, and the other three keep their values;   *)
(* frame counter, latch-up status, temperature and the channelId field are *)
(* rewritten by every completion; no other step changes the record.        *)
(***************************************************************************)
C11_OneSlot ==
    [][ /\ ~CompletionDue => i2c_data' = i2c_data
        /\ CompletionDue =>
              LET id == (StagedByte(6) \div 4) % 4
              IN  /\ \A k \in 3..6 : k # 3 + id => i2c_data'[k] = i2c_data[k]
                  /\ i2c_data'[3 + id].lo % 256 = StagedByte(7)
                  /\ i2c_data'[7] = [hi |-> 0, lo |-> id]
                  /\ i2c_data'[1] = [hi |-> 0, lo |-> (StagedByte(1) \div 16) % 4]
                  /\ i2c_data'[0].lo % 256 = StagedByte(3)
                  /\ i2c_data'[2].lo % 256 \in
                        {StagedByte(4), (StagedByte(4) + 255) % 256} ]_vars

\* the completion of a channel 1 frame kept the Chip_VDD slot an earlier
\* channel 0 frame had written
C11_Witness ==
    /\ op = "complete"
    /\ i2c_data[7].lo = 1
    /\ i2c_data[3].lo # 0
    /\ i2c_data[4].lo # 0

(***************************************************************************)
(* C12: a frame completion raises the overcurrent advisory if and only if  *)
(* channelId is 3 and ((b[6] & 0x03) << 8) + b[7], b the staged bytes as   *)
(* values 0..255, exceeds 68; no other step raises it; with or without the *)
(* advisory the step runs the commit check and the loop goes on with the   *)
(* next byte in SEEKING_SYNC.                                              *)
(***************************************************************************)
C12_Advisory ==
    [][ /\ ~CompletionDue => printed' = <<>>
        /\ CompletionDue =>
              /\ (printed' # <<>>) <=>
                    /\ (StagedByte(6) \div 4) % 4 = 3
                    /\ ((StagedByte(6) % 4) * 256) + StagedByte(7) > 68
              /\ IF fcounter + 1 = framadd
                   THEN fcounter' = 0 /\ maps' = maps_temp /\ maps_temp' = ZeroMap
                   ELSE fcounter' = fcounter + 1 /\ maps' = maps
                          /\ maps_temp' = maps_temp
              /\ pc' = "loop" /\ i' = i + 1
              /\ counter' = 0 /\ tsign' = 0 ]_vars

\* the advisory was raised for the value 70 in the step that also committed
C12_Witness ==
    /\ op = "complete"
    /\ printed = << [hi |-> 0, lo |-> 70] >>
    /\ fcounter = 0
    /\ maps # ZeroMap
    /\ maps_temp = ZeroMap

\* a channel 3 frame with the value 60 was completed without advisory
C12_WitnessLow ==
    /\ op = "complete"
    /\ printed = <<>>
    /\ i2c_data[7].lo = 3
    /\ i2c_data[6] = [hi |-> 0, lo |-> 60]

\* bytes j-3..j of the current buffer, counted from 0, are the sync marker
MarkerAt(j) ==
    /\ j >= 3
    /\ j < DataLen
    /\ \A k \in (j - 3)..j : databuf[k + 1] = 170

(***************************************************************************)
(* C13: every invocation starts in SEEKING_SYNC with the byte history, the *)
(* assembler phase, the word history, the tailer flag, the in-frame        *)
(* counter and the pending row, column and code cleared, whatever state    *)
(* the previous invocation ended in, while temp, stable, FrameCounter (and *)
(* the telemetry record) are what the previous invocation left; so a step  *)
(* changes FrameCounter only if a sync marker lies in the bytes the        *)
(* current invocation has consumed: a frame cut by the end of a buffer is  *)
(* never completed by the next invocation.                                 *)
(***************************************************************************)
C13_Invocation ==
    [][ /\ (pc = "idle" /\ pc' = "loop") =>
              /\ w' = 0 /\ w1' = 0 /\ w2' = 0 /\ w3' = 0 /\ w4' = 0
              /\ odd' = 0
              /\ pdata' = 0 /\ pdata_pre1' = 0 /\ pdata_pre2' = 0
              /\ tsign' = 0
              /\ counter' = 0
              /\ row' = 0 /\ column' = 0 /\ code' = 0
              /\ i' = 0
              /\ UNCHANGED caller
        /\ pc' = "idle" => UNCHANGED caller
        /\ fcounter' # fcounter =>
              /\ pc = "loop"
              /\ \E j \in 3..(i - 1) : MarkerAt(j) ]_vars

\* the second invocation has started; the first one recorded hits in temp
\* and completed no frame (the telemetry record was never written), so it
\* ended inside a frame
C13_Witness ==
    /\ op = "call"
    /\ calls = 2
    /\ counter = 0 /\ tsign = 0 /\ odd = 0
    /\ maps_temp # ((1 * COLS + 3) :> 65535)
    /\ maps = ZeroMap
    /\ fcounter = 0
    /\ \A k \in 0..7 : i2c_data[k] = [hi |-> 0, lo |-> 0]

\* the state the witness of C13 comes from: an invocation returned with a
\* first terminator word pending
C13_CutReturn ==
    /\ op = "return"
    /\ calls = 1
    /\ counter # 0
    /\ tsign = 1

(***************************************************************************)
(* C14: every step taken in SEEKING_SYNC (in-frame counter 0), the step    *)
(* that detects the sync marker included, leaves temp, stable,             *)
(* FrameCounter and the telemetry record unchanged; it changes only the    *)
(* byte history, the assembler phase, the in-frame counter and the staged  *)
(* block.                                                                  *)
(***************************************************************************)
C14_SeekKeeps ==
    [][ (pc = "loop" /\ counter = 0 /\ i < DataLen) =>
            /\ UNCHANGED caller
            /\ UNCHANGED <<pdata, pdata_pre1, pdata_pre2, tsign, coord, ch>>
      ]_vars

\* the marker of a second frame was detected with a committed map, a
\* non-zero FrameCounter history and a written telemetry record in place
C14_Witness ==
    /\ op = "seek"
    /\ counter = 1
    /\ maps # ZeroMap
    /\ i2c_data[0] # [hi |-> 0, lo |-> 0]

\* the number of bytes of the current buffer consumed up to and including
\* the last byte of the sync marker of the current frame
MarkerEnd == i - 2 * Len(words) - (IF odd = 0 THEN 1 ELSE 0)

(***************************************************************************)
(* C17: while IN_FRAME one 16-bit word is assembled per two consumed       *)
(* bytes; the k-th word after the sync marker is low | (high << 8) with    *)
(* low the (2k-1)-th and high the 2k-th byte after the marker; after the   *)
(* k-th word the in-frame counter is k + 1; and every assembled word, the  *)
(* four built from the telemetry bytes included, is compared with the      *)
(* terminator: it raises the tailer flag or, after a terminator, ends the  *)
(* frame, and any other word clears the flag.                              *)
(***************************************************************************)
C17_Words ==
    /\ [] ( counter # 0 =>
              /\ MarkerAt(MarkerEnd - 1)
              /\ counter = Len(words) + 1
              /\ \A k \in 1..Len(words) :
                    words[k] = databuf[MarkerEnd + 2 * k - 1]
                                 + 256 * databuf[MarkerEnd + 2 * k]
              /\ Len(words) >= 1 => pdata_pre1 = words[Len(words)]
              /\ tsign = 1 <=> (Len(words) >= 1 /\ words[Len(words)] = 22136) )
    /\ [][ /\ WordDue =>
                /\ pdata' = DueWord
                /\ (counter' = 0) <=> (DueWord = 22136 /\ tsign = 1)
                /\ (tsign' = 1) <=> (DueWord = 22136 /\ tsign = 0)
                /\ counter' # 0 => words' = Append(words, DueWord)
           /\ (pc = "loop" /\ counter # 0 /\ ~WordDue) =>
                UNCHANGED <<counter, tsign, words>> ]_vars

\* a double terminator built from telemetry bytes completed the frame at
\* its second word
C17_Witness ==
    /\ op = "complete"
    /\ Len(words) = 2
    /\ words[1] = 22136
    /\ words[2] = 22136

\* six words of a frame, low byte first, the in-frame counter at 7
C17_WitnessSix ==
    /\ counter = 7
    /\ Len(words) = 6
    /\ words[5] = 4100
    /\ words[6] = 9

\* a step that consumes a byte of one of the first five words of a frame
EarlyByte == pc = "loop" /\ i < DataLen /\ counter \in 1..5

(***************************************************************************)
(* C18 as stated: none of the four words assembled from the 8 telemetry    *)
(* bytes, and no word an earlier frame left in the word history, is        *)
(* interpreted as a coordinate; the first word that can be interpreted is  *)
(* the 5th after the marker; so the telemetry bytes never change the       *)
(* pending row or any cell of temp.                                        *)
(***************************************************************************)
C18_Original ==
    /\ [] ( op \in {"row", "column"} =>
              /\ Len(words) >= 6
              /\ pdata_pre2 = words[Len(words) - 1] )
    /\ [][ EarlyByte =>
             /\ UNCHANGED <<row, column, code>>
             /\ maps_temp' = maps_temp ]_vars

(***************************************************************************)
(* C18 as amended: none of the four words assembled from the 8 telemetry   *)
(* bytes, and no word an earlier frame left in the word history, is        *)
(* interpreted as a coordinate; the first word that can be interpreted is  *)
(* the 5th after the marker; so the telemetry bytes never change the       *)
(* pending row and never add a hit to temp.  They can still end the frame: *)
(* two terminator words among them complete it, and the commit of that     *)
(* completion, when due, moves temp to stable and zeroes temp.             *)
(***************************************************************************)
C18_NoEarlyHit ==
    /\ [] ( op \in {"row", "column"} =>
              /\ Len(words) >= 6
              /\ pdata_pre2 = words[Len(words) - 1] )
    /\ [][ EarlyByte =>
             /\ UNCHANGED <<row, column, code>>
             /\ \/ maps_temp' = maps_temp
                \/ /\ CompletionDue
                   /\ fcounter + 1 = framadd
                   /\ maps' = maps_temp
                   /\ maps_temp' = ZeroMap ]_vars

\* the 5th word of a frame, a row word, was interpreted by the step that
\* assembled the 6th
C18_Witness ==
    /\ op = "row"
    /\ Len(words) = 6
    /\ pdata_pre2 = words[5]
    /\ row = Coord10(words[5])

\* a double terminator among the telemetry bytes committed and zeroed temp
C18_TelemetryCommit ==
    /\ op = "complete"
    /\ Len(words) <= 4
    /\ maps = ((1 * COLS + 3) :> 65535)
    /\ maps_temp = ZeroMap

\* the cells of m2 hold what they hold in m1: no hit was added
NoHit(m1, m2) == m2 = m1

(***************************************************************************)
(* C19: a word is interpreted as a coordinate only in the step that finds  *)
(* the word after it to be a non-terminator.  A coordinate word directly   *)
(* followed by a terminator word (the last word before the double          *)
(* terminator in particular) is never interpreted: the terminator step     *)
(* updates no row and adds no hit, and the next interpreting step takes    *)
(* the word directly before the word it completes.  A lone terminator      *)
(* followed by a non-terminator, in-frame counter past 6, is itself        *)
(* interpreted: 0x5678 has bit 0x1000 set, so it sets the pending row to   *)
(* 414.                                                                    *)
(***************************************************************************)
C19_FollowedBy ==
    [][ /\ (pc = "loop" /\ ~InterpretDue) =>
              /\ UNCHANGED <<row, column, code>>
              /\ \/ NoHit(maps_temp, maps_temp')
                 \/ CompletionDue /\ maps_temp' = ZeroMap
        /\ InterpretDue =>
              IF (pdata_pre1 \div 4096) % 2 = 1
                THEN /\ row' = (pdata_pre1 \div 4) % 1024
                     /\ UNCHANGED <<column, code>>
                     /\ NoHit(maps_temp, maps_temp')
                ELSE /\ column' = (pdata_pre1 \div 4) % 1024
                     /\ code' = pdata_pre1 % 4
                     /\ row' = row
        /\ (InterpretDue /\ AfterTerminator) =>
              /\ row' = 414
              /\ UNCHANGED <<column, code>>
              /\ NoHit(maps_temp, maps_temp') ]_vars

\* a lone terminator was the 5th word; the 6th, a column word, made the
\* step interpret the terminator as the row word of row 414
C19_Witness ==
    /\ op = "row"
    /\ row = 414
    /\ Len(words) >= 6
    /\ words[Len(words) - 1] = 22136
    /\ words[Len(words)] = 9

\* a frame was completed whose last word before the double terminator, the
\* row word of row 1, was never interpreted
C19_WitnessSkipped ==
    /\ op = "complete"
    /\ Len(words) >= 7
    /\ words[Len(words) - 2] = 4100
    /\ row # 1

\* a step taken in SEEKING_SYNC
SeekDue == pc = "loop" /\ i < DataLen /\ counter = 0

\* C16 but for the origin of the staged block: entry at the marker only,
\* the bytes after it that lie in the buffer staged in order, no restart
\* and no restaging while IN_FRAME, leaving IN_FRAME only by a double
\* terminator
C16_Entry ==
    /\ SeekDue =>
          /\ counter' = 1 <=> MarkerAt(i)
          /\ counter' \in {0, 1}
          /\ counter' = 1 =>
                \A m \in 0..7 :
                    i + m + 1 < DataLen =>
                        i2c_data_temp'[m] % 256 = databuf[i + m + 2]
    /\ (pc = "loop" /\ counter # 0) =>
          /\ i2c_data_temp' = i2c_data_temp
          /\ counter' \in {counter, counter + 1, 0}
          /\ counter' = 0 => CompletionDue
          /\ counter' # 0 => MarkerEnd' = MarkerEnd

C16_EntryHolds == [][C16_Entry]_vars

(***************************************************************************)
(* C16: in SEEKING_SYNC the decoder enters IN_FRAME at byte i if and only  *)
(* if bytes i-3..i of the current buffer are all 0xAA, and the telemetry   *)
(* block staged for that frame is bytes i+1..i+8 of the buffer (what the   *)
(* step stages it reads from the buffer); while IN_FRAME four 0xAA bytes   *)
(* neither restart the frame nor restage the block, and a new frame starts *)
(* only after a double terminator has returned the decoder to SEEKING_SYNC *)
(* and four further 0xAA bytes were seen.                                  *)
(***************************************************************************)
C16_SyncAndStage ==
    [][ /\ C16_Entry
        /\ (SeekDue /\ counter' = 1) =>
              \A m \in 0..7 :
                  \/ /\ i + m + 1 < DataLen
                     /\ i2c_data_temp'[m] % 256 = databuf[i + m + 2]
                  \/ /\ i + m + 1 >= DataLen
                     /\ i2c_data_temp'[m] = i2c_data_temp[m]
                     /\ i + m + 1 \notin rd' ]_vars

\* a marker inside a frame was consumed as a word: the frame went on
C16_NoRestart ==
    /\ counter = 8
    /\ Len(words) = 7
    /\ words[5] = 43690
    /\ words[6] = 43690

\* a frame was completed with a staged block that holds the byte behind
\* the end of the buffer
C16_PastStaged ==
    /\ op = "complete"
    /\ MarkerEnd + 4 = DataLen
    /\ past # Unread

\* FrameCounter is at or above framadd: no later increment can make it
\* equal to framadd
Stuck == fcounter >= framadd

\* C20 while FrameCounter is below the largest int
C20_BelowMax ==
    [][ /\ (framadd >= 1 /\ fcounter \in 0..(framadd - 1)) =>
              fcounter' \in 0..(framadd - 1)
        /\ (Stuck /\ fcounter < IntMax) =>
              /\ fcounter' >= fcounter
              /\ Stuck'
              /\ maps' = maps
              /\ ~TempZeroed ]_vars

(***************************************************************************)
(* C20: if framadd >= 1 and FrameCounter is in 0..framadd-1 when the first *)
(* invocation starts, FrameCounter is in 0..framadd-1 after every step; if *)
(* FrameCounter >= framadd at the start of an invocation (or framadd <= 0) *)
(* no commit happens in any later frame: FrameCounter only grows and       *)
(* stable is never updated, no step brings FrameCounter back below         *)
(* framadd.                                                                *)
(***************************************************************************)
C20_Range ==
    [][ /\ (framadd >= 1 /\ fcounter \in 0..(framadd - 1)) =>
              fcounter' \in 0..(framadd - 1)
        /\ Stuck =>
              /\ fcounter' >= fcounter
              /\ Stuck'
              /\ maps' = maps
              /\ ~TempZeroed ]_vars

\* FrameCounter grew by frames completed above framadd
C20_Grown ==
    /\ op = "complete"
    /\ framadd = 2
    /\ fcounter = 4
    /\ maps = ZeroMap

\* FrameCounter wrapped to the smallest int
C20_Wrapped ==
    /\ op = "complete"
    /\ fcounter < 0

(***************************************************************************)
(* The command encoders, lines 57-216.  A uint32_t is held as its two      *)
(* 16-bit halves.  A word of the output buffer is held with the byte order *)
(* it is stored in: conv32network_endian turns the first n words from host *)
(* order into network order.                                               *)
(***************************************************************************)
\* 32-bit argument values: 0, 0x1234ABCD, 0xFFFFFFFF
Args == { [hi |-> 0, lo |-> 0], [hi |-> 4660, lo |-> 43981],
          [hi |-> 65535, lo |-> 65535] }

\* 32-bit data words of a value array
Vals == { [hi |-> 0, lo |-> 1], [hi |-> 51966, lo |-> 47806] }

\* the value arrays (aval, nval) and the contents of a configuration file
Avals == UNION { [1..n -> Vals] : n \in 0..MaxVal }

\* *bufio on entry: NULL, or a buffer of the caller of FileWords words
Null == 0
FileWords == 5000
BufIo == {Null, FileWords}

\* the value of "return -1" in a size_t
AllocFailed == -1

\* a command word: code in the upper half, payload in the lower half
Pack(upper, lower) == [hi |-> upper % TwoTo16, lo |-> lower % TwoTo16]

\* lines 48-55: the first n words of ws in network order, the rest as stored
Conv32(ws, n) ==
    [k \in 1..Len(ws) |->
        [word |-> ws[k], order |-> IF k <= n THEN "network" ELSE "host"]]

\* the common frame of an encoder: buf = *bufio; if NULL, calloc(alloc
\* words), return -1 when that fails; then the words ws are stored from
\* buf[0] on, conv of them are converted, and ret bytes are returned
Encoded(bufio, ok, alloc, ws, conv, nval, ret) ==
    /\ cmdnull' = (bufio = Null)
    /\ cmdnval' = nval
    /\ IF bufio = Null /\ ~ok
         THEN /\ cmdcap' = 0
              /\ cmdmem' = <<>>
              /\ cmdret' = AllocFailed
         ELSE /\ cmdcap' = IF bufio = Null THEN alloc ELSE bufio
              /\ cmdmem' = Conv32(ws, conv)
              /\ cmdret' = ret
    /\ UNCHANGED decoder

\* lines 57-70
CmdReadStatus ==
    \E bufio \in BufIo, ok \in BOOLEAN, addr \in Args :
        /\ cmdname' = "cmd_read_status"
        /\ Encoded(bufio, ok, 1,
                   << Pack(32768 + addr.lo, 0) >>, 1, 0, 1 * 4)

\* lines 72-85
CmdSendPulse ==
    \E bufio \in BufIo, ok \in BOOLEAN, mask \in Args :
        /\ cmdname' = "cmd_send_pulse"
        /\ Encoded(bufio, ok, 1,
                   << Pack(11, mask.lo) >>, 1, 0, 1 * 4)

\* lines 100-108: the words cmd_write_memory stores.  The first value is
\* read through *aval whatever nval is; with nval = 0 the array has no
\* element and the read yields the word stray.
WriteMemoryWords(addr, aval, stray) ==
    LET nval == Len(aval)
        first == IF nval >= 1 THEN aval[1] ELSE stray
        n == 4 + 2 * ((IF nval >= 1 THEN nval ELSE 1) - 1)
    IN  [k \in 1..n |->
            CASE k = 1 -> Pack(17, addr.lo)
              [] k = 2 -> Pack(18, addr.hi)
              [] k = 3 -> Pack(19, first.lo)
              [] k = 4 -> Pack(20, first.hi)
              [] OTHER -> IF k % 2 = 1
                            THEN Pack(19, aval[(k - 3) \div 2 + 1].lo)
                            ELSE Pack(20, aval[(k - 4) \div 2 + 1].hi)]

\* lines 87-111
CmdWriteMemory ==
    \E bufio \in BufIo, ok \in BOOLEAN, addr \in Args, aval \in Avals,
       stray \in Vals :
        /\ cmdname' = "cmd_write_memory"
        /\ Encoded(bufio, ok, Len(aval) * 2 + 2,
                   WriteMemoryWords(addr, aval, stray), Len(aval) * 2 + 2,
                   Len(aval), (Len(aval) * 2 + 2) * 4)

\* lines 113-134
CmdReadMemory ==
    \E bufio \in BufIo, ok \in BOOLEAN, addr \in Args, n \in Args :
        /\ cmdname' = "cmd_read_memory"
        /\ Encoded(bufio, ok, 4,
                   << Pack(17, addr.lo), Pack(18, addr.hi), Pack(16, n.lo),
                      Pack(32788, 0) >>, 4, 0, 4 * 4)

\* lines 136-149
CmdWriteRegister ==
    \E bufio \in BufIo, ok \in BOOLEAN, addr \in Args, val \in Args :
        /\ cmdname' = "cmd_write_register"
        /\ Encoded(bufio, ok, 1,
                   << Pack(32 + addr.lo, val.lo) >>, 1, 0, 1 * 4)

\* lines 151-164
CmdReadRegister ==
    \E bufio \in BufIo, ok \in BOOLEAN, addr \in Args :
        /\ cmdname' = "cmd_read_register"
        /\ Encoded(bufio, ok, 1,
                   << Pack(32800 + addr.lo, 0) >>, 1, 0, 1 * 4)

\* lines 166-181
CmdReadDatafifo ==
    \E bufio \in BufIo, ok \in BOOLEAN, n \in Args :
        /\ cmdname' = "cmd_read_datafifo"
        /\ Encoded(bufio, ok, 2,
                   << Pack(26, n.hi), Pack(25, n.lo) >>, 2, 0, 2 * 4)

\* lines 183-216: the words of the file are read into jtag_buf and handed
\* to cmd_write_memory with address 0 and the buffer of FileWords words
CmdWriteMemoryFile ==
    \E bufio \in BufIo, ok \in BOOLEAN, file \in Avals, stray \in Vals :
        /\ cmdname' = "cmd_write_memory_file"
        /\ Encoded(bufio, ok, FileWords,
                   WriteMemoryWords([hi |-> 0, lo |-> 0], file, stray),
                   Len(file) * 2 + 2, Len(file), (Len(file) * 2 + 2) * 4)

NextCmd ==
    \/ CmdReadStatus
    \/ CmdSendPulse
    \/ CmdWriteMemory
    \/ CmdReadMemory
    \/ CmdWriteRegister
    \/ CmdReadRegister
    \/ CmdReadDatafifo
    \/ CmdWriteMemoryFile

SpecCmd == InitCmd /\ [][NextCmd]_vars

\* an encoder call returned without allocation failure
Returned == cmdname # "none" /\ cmdret # AllocFailed

\* C15 for the calls of cmd_write_memory with at least one value
C15_NonEmpty ==
    (Returned /\ (cmdname = "cmd_write_memory" => cmdnval >= 1)
              /\ (cmdname = "cmd_write_memory_file" => cmdnval >= 1)) =>
        /\ cmdret = 4 * Len(cmdmem)
        /\ cmdnull => cmdret <= 4 * cmdcap
        /\ cmdname = "cmd_write_memory" => Len(cmdmem) = 2 * cmdnval + 2

(***************************************************************************)
(* C15: for every command encoder call that does not fail allocation the   *)
(* returned byte length is 4 times the number of 32-bit words the call     *)
(* writes into the output buffer, and it never exceeds the size of the     *)
(* buffer the encoder allocated when *bufio was NULL; cmd_write_memory     *)
(* with nval values writes exactly 2*nval+2 words and returns (2*nval+2)*4 *)
(* for every nval >= 0, nval = 0 included.                                 *)
(***************************************************************************)
C15_Lengths ==
    Returned =>
        /\ cmdret = 4 * Len(cmdmem)
        /\ cmdnull => cmdret <= 4 * cmdcap
        /\ cmdname = "cmd_write_memory" =>
              /\ Len(cmdmem) = 2 * cmdnval + 2
              /\ cmdret = (2 * cmdnval + 2) * 4

\* cmd_write_memory with nval = 0 and *bufio NULL wrote 4 words into the 2
\* words it allocated and returned 8
C15_Overrun ==
    /\ cmdname = "cmd_write_memory"
    /\ cmdnval = 0
    /\ cmdnull
    /\ cmdcap = 2
    /\ Len(cmdmem) = 4
    /\ cmdret = 8

====
